---- MODULE Spec2Model ----
(***************************************************************************)
(* Order processing of Chikwex-Infra (ChikwexServerlessAssign3): order     *)
(* creation, the SQS ingestion queue with its redrive policy, the order    *)
(* processing worker and the order workflow (validate, payment, inventory, *)
(* compensation), over the DynamoDB order table.                           *)
(*                                                                         *)
(* The Lambda sources (src/lambdas/*/app.py) and the workflow definition   *)
(* (statemachine/order-workflow.asl.json) are described by                 *)
(* ChikwexServerlessAssign3/configure-aws.sh, whose code fragments are     *)
(* what the definitions below are translated from; what no fragment shows  *)
(* (conditional writes, resume, cancellation, the workflow run by the      *)
(* queue worker) follows spec.md.                                          *)
(***************************************************************************)
EXTENDS Integers, Sequences, FiniteSets, TLC

\* ------------------------------------------------------------------ bounds
MaxSubmit == 3      \* creation requests answered 201, and answered 400
MaxRefs == 2        \* payment references the payment capability issues per order

\* ------------------------------------------------------- program constants
maxReceiveCount == 3    \* RedrivePolicy.maxReceiveCount
MaxAttempts == 3        \* Retry.MaxAttempts of a workflow task
VisibilityTimeout == 180  \* seconds a received message stays hidden
Timeout == 30           \* seconds after which a running function is killed

Workers == {"w1", "w2"}
Keys == {"k1", "k2"}
NoKey == "none"
NoRef == 0
NoReason == << "", "" >>

PENDING == "PENDING"
PROCESSING == "PROCESSING"
COMPLETED == "COMPLETED"
FAILED == "FAILED"
CANCELLED == "CANCELLED"
Statuses == {PENDING, PROCESSING, COMPLETED, FAILED, CANCELLED}
Terminal == {COMPLETED, FAILED, CANCELLED}

\* The edges of the status graph.
StatusEdges ==
    { <<PENDING, PROCESSING>>, <<PROCESSING, COMPLETED>>, <<PROCESSING, FAILED>>,
      <<PENDING, CANCELLED>>, <<PROCESSING, CANCELLED>> }

\* Prices are in integer cents.
Item(q, p) == [quantity |-> q, price |-> p]
ScenarioA == << Item(2, 2999), Item(1, 4999) >>
OneItem == << Item(1, 100) >>
ThreeItems == << Item(1, 100), Item(3, 250), Item(2, 0) >>
ValidItemLists == { ScenarioA, OneItem, ThreeItems }
InvalidItemLists == { << >>, << Item(1, -1) >>, << Item(0, 100) >> }

VARIABLES
    orders,       \* the order table: a sequence of rows, orderId = index
    submissions,  \* the creation requests answered 201: <<idempotencyKey, orderId>>
    rejected,     \* number of creation requests answered 400
    msgs,         \* the queue message of each order: [state, rc, holder]
    wk,           \* each worker's run: [pc, o, seen, readRef, ref, tries, why, last]
    lastRef,      \* per order, the payment references issued so far (1..lastRef)
    refunds,      \* refund attempts recorded by the payment capability: <<orderId, ref>>
    events,       \* notification events delivered to the topic: <<orderId, status>>
    cancelReq     \* orders whose cancellation was requested

\* The three Express services keep their data in memory, each in one array.
VARIABLES
    payments,       \* payment service: the payments array, paymentId = index
    serviceOrders,  \* order service: the orders array, orderId = index
    users,          \* user service: the users array
    registering,    \* user service: the register requests between check and insert
    reply           \* the last answer of a service: << route, id, status code >>

microservices == << payments, serviceOrders, users, registering, reply >>

vars == << orders, submissions, rejected, msgs, wk, lastRef, refunds, events, cancelReq,
           payments, serviceOrders, users, registering, reply >>

OrderIds == 1..Len(orders)

\* ------------------------------------------------------------ order creation
\* A total that adds the unit prices without the quantities.
RECURSIVE calculate_total_of_prices(_)
calculate_total_of_prices(items) ==
    IF items = << >> THEN 0
    ELSE Head(items).price + calculate_total_of_prices(Tail(items))

RECURSIVE calculate_total(_)
calculate_total(items) ==
    IF items = << >> THEN 0
    ELSE Head(items).quantity * Head(items).price + calculate_total(Tail(items))

\* A validation that stops after the required fields.
validate_order_fields_only(req) == req.hasCustomer /\ req.hasItems

\* A creation request: [customerId present, items present, items, idempotencyKey].
validate_order(req) ==
    /\ req.hasCustomer
    /\ req.hasItems
    /\ req.items # << >>
    /\ \A i \in 1..Len(req.items) :
          req.items[i].price >= 0 /\ req.items[i].quantity >= 1

NewOrder(req) ==
    [ status |-> PENDING,
      hasCustomer |-> req.hasCustomer,
      items |-> req.items,
      totalAmount |-> calculate_total(req.items),
      paymentReference |-> NoRef,
      failureReason |-> NoReason ]

NewMessage == [state |-> "visible", rc |-> 0, holder |-> "none"]

Idle == [pc |-> "idle", o |-> 0, seen |-> "", readRef |-> NoRef, ref |-> NoRef,
         tries |-> 0, why |-> NoReason, last |-> NoReason]

Init ==
    /\ orders = << >>
    /\ submissions = {}
    /\ rejected = 0
    /\ msgs = << >>
    /\ wk = [w \in Workers |-> Idle]
    /\ lastRef = << >>
    /\ refunds = {}
    /\ events = {}
    /\ cancelReq = {}
    /\ payments = << >>
    /\ serviceOrders = << >>
    /\ users = << >>
    /\ registering = {}
    /\ reply = << "", 0, 0 >>

\* POST /orders: validate, generate a fresh order id, compute the total, put the
\* row with status PENDING, send the queue message, answer 201.
CreateOrder(req, cap) ==
    /\ Len(orders) < cap
    /\ validate_order(req)
    /\ orders' = Append(orders, NewOrder(req))
    /\ msgs' = Append(msgs, NewMessage)
    /\ lastRef' = Append(lastRef, 0)
    /\ submissions' = submissions \cup { << req.key, Len(orders) + 1 >> }
    /\ UNCHANGED << rejected, wk, refunds, events, cancelReq, microservices >>

\* The message of a row whose sqs.send_message never went through.
UnsentMessage == [state |-> "unsent", rc |-> 0, holder |-> "none"]

\* POST /orders where put_item succeeds and send_message raises: the handler
\* ends with a server error (500) after the row was put.
CreateOrderSendFails(req, cap) ==
    /\ Len(orders) < cap
    /\ validate_order(req)
    /\ orders' = Append(orders, NewOrder(req))
    /\ msgs' = Append(msgs, UnsentMessage)
    /\ lastRef' = Append(lastRef, 0)
    /\ UNCHANGED << submissions, rejected, wk, refunds, events, cancelReq, microservices >>

\* POST /orders with an invalid body: answer 400, store nothing, send nothing.
RejectOrder(req, cap) ==
    /\ rejected < cap
    /\ ~ validate_order(req)
    /\ rejected' = rejected + 1
    /\ UNCHANGED << orders, submissions, msgs, wk, lastRef, refunds, events, cancelReq, microservices >>

\* ------------------------------------------------------------ ingestion queue
\* A worker polls the queue: a visible message that was received fewer than
\* maxReceiveCount times is handed to it and hidden for the visibility timeout.
Receive(w, o) ==
    /\ wk[w].pc = "idle"
    /\ msgs[o].state = "visible"
    /\ msgs[o].rc < maxReceiveCount
    /\ msgs' = [msgs EXCEPT ![o] = [state |-> "inflight", rc |-> @.rc + 1, holder |-> w]]
    /\ wk' = [wk EXCEPT ![w] = [Idle EXCEPT !.pc = "read", !.o = o]]
    /\ UNCHANGED << orders, submissions, rejected, lastRef, refunds, events, cancelReq, microservices >>

\* The receive after maxReceiveCount receives moves the message to the dead
\* letter queue instead of delivering it.
QuarantinesEarly(m) == m.state = "visible" /\ m.rc >= maxReceiveCount - 1

Quarantines(m) == m.state = "visible" /\ m.rc >= maxReceiveCount

QuarantinedRowFailed(row) == [row EXCEPT !.status = FAILED]

\* The redrive policy moves the message; the order row stays as it is.
QuarantinedRow(row) == row

Redrive(o) ==
    /\ Quarantines(msgs[o])
    /\ msgs' = [msgs EXCEPT ![o] = [state |-> "dlq", rc |-> @.rc + 1, holder |-> "none"]]
    /\ orders' = [orders EXCEPT ![o] = QuarantinedRow(@)]
    /\ UNCHANGED << submissions, rejected, wk, lastRef, refunds, events, cancelReq, microservices >>

\* A run is killed after Timeout seconds, so it outlives the visibility timeout
\* of its message only if the function's timeout is not the shorter one.
LeaseShorterThanRun == TRUE

RunOutlivesLease == Timeout >= VisibilityTimeout

Running(o) == \E w \in Workers : wk[w].pc # "idle" /\ wk[w].o = o

ReappearFromQuarantine(o) ==
    /\ msgs[o].state \in {"inflight", "dlq"}
    /\ msgs' = [msgs EXCEPT ![o] = [@ EXCEPT !.state = "visible", !.holder = "none"]]
    /\ UNCHANGED << orders, submissions, rejected, wk, lastRef, refunds, events, cancelReq, microservices >>

Reappear(o) ==
    /\ msgs[o].state = "inflight"
    /\ msgs' = [msgs EXCEPT ![o] = [@ EXCEPT !.state = "visible", !.holder = "none"]]
    /\ UNCHANGED << orders, submissions, rejected, wk, lastRef, refunds, events, cancelReq, microservices >>

\* The visibility timeout of an undeleted message runs out: the message is
\* visible again.
LeaseExpire(o) ==
    /\ RunOutlivesLease \/ ~ Running(o)
    /\ Reappear(o)

\* The lease is not a mutex: the message reappears under a run that is still
\* going (a run slower than the lease, a duplicate delivery).
LeaseExpireEarly(o) ==
    /\ Running(o)
    /\ Reappear(o)

\* An operator re-enqueues a quarantined message (as a new message of the queue).
Replay(o) ==
    /\ msgs[o].state = "dlq"
    /\ msgs' = [msgs EXCEPT ![o] = NewMessage]
    /\ UNCHANGED << orders, submissions, rejected, wk, lastRef, refunds, events, cancelReq, microservices >>

\* The worker's invocation dies (timeout, exception): nothing is deleted.
Crash(w) ==
    /\ wk[w].pc # "idle"
    /\ wk' = [wk EXCEPT ![w] = Idle]
    /\ UNCHANGED << orders, submissions, rejected, msgs, lastRef, refunds, events, cancelReq, microservices >>

\* Deleting needs the receipt of the latest receive of the message.
AckDeletes(m, w) == m.state = "inflight" /\ m.holder = w

Ack(w) ==
    /\ wk[w].pc = "ack"
    /\ msgs' = [msgs EXCEPT ![wk[w].o] =
                  IF AckDeletes(@, w) THEN [@ EXCEPT !.state = "deleted", !.holder = "none"]
                  ELSE @]
    /\ wk' = [wk EXCEPT ![w] = Idle]
    /\ UNCHANGED << orders, submissions, rejected, lastRef, refunds, events, cancelReq, microservices >>

\* ------------------------------------------------------------- order store
\* The conditional write of a row: it goes through only if the row's status is
\* still the one this worker last read.
CondOkAlways(row, seen) == TRUE

CondOk(row, seen) == row.status = seen

\* sns.publish of a status event: it may fail, and never blocks the transition.
Published(o, status, delivered) ==
    IF delivered THEN events \cup { << o, status >> } ELSE events

ProcessingRow(row) == [row EXCEPT !.status = PROCESSING]

\* update_order_status(orderId, status), publishing the status event after it.
\* A refused write ends the run; the message reappears after its timeout.
\* The step after a status write: the workflow after PROCESSING, the
\* acknowledgment after a terminal status.
AfterWrite(status) == IF status \in Terminal THEN "ack" ELSE "validate"

WriteStatusStopsOnPublishFailure(w, row, delivered) ==
    LET o == wk[w].o IN
    IF CondOk(orders[o], wk[w].seen)
    THEN /\ orders' = [orders EXCEPT ![o] = row]
         /\ wk' = [wk EXCEPT ![w] =
                      IF delivered
                      THEN [@ EXCEPT !.pc = AfterWrite(row.status), !.seen = row.status]
                      ELSE Idle]
         /\ events' = Published(o, row.status, delivered)
    ELSE /\ wk' = [wk EXCEPT ![w] = Idle]
         /\ UNCHANGED << orders, events >>

WriteStatus(w, row, delivered) ==
    LET o == wk[w].o IN
    IF CondOk(orders[o], wk[w].seen)
    THEN /\ orders' = [orders EXCEPT ![o] = row]
         /\ wk' = [wk EXCEPT ![w] = [@ EXCEPT !.pc = AfterWrite(row.status),
                                             !.seen = row.status]]
         /\ events' = Published(o, row.status, delivered)
    ELSE /\ wk' = [wk EXCEPT ![w] = Idle]
         /\ UNCHANGED << orders, events >>

\* ---------------------------------- order processing function, SQS trigger
\* The handler as the walkthrough lists it: for each record of the batch,
\* update_order_status(orderId, 'PROCESSING'), then sns.publish of the event.
\* Its normal return deletes the message (Ack); an exception is a Crash.
HandlerUpdateStatus(w) ==
    /\ wk[w].pc = "read"
    /\ orders' = [orders EXCEPT ![wk[w].o] = ProcessingRow(@)]
    /\ wk' = [wk EXCEPT ![w] = [@ EXCEPT !.pc = "publish", !.seen = PROCESSING]]
    /\ UNCHANGED << submissions, rejected, msgs, lastRef, refunds, events, cancelReq, microservices >>

HandlerPublish(w) ==
    /\ wk[w].pc = "publish"
    /\ events' = Published(wk[w].o, PROCESSING, TRUE)
    /\ wk' = [wk EXCEPT ![w] = [@ EXCEPT !.pc = "ack"]]
    /\ UNCHANGED << orders, submissions, rejected, msgs, lastRef, refunds, cancelReq, microservices >>

\* ------------------------------------------------------------- orchestrator
ResumeStepIgnoresRef(status, ref, cancel) ==
    IF status \in Terminal THEN "ack"
    ELSE IF cancel /\ ref = NoRef THEN "cancel"
    ELSE IF status = PENDING THEN "markProcessing"
    ELSE "validate"

ResumeStepSkipsProcessing(status, ref, cancel) ==
    IF status \in Terminal THEN "ack"
    ELSE IF cancel /\ ref = NoRef THEN "cancel"
    ELSE IF ref # NoRef THEN "reserveInventory"
    ELSE "validate"

ResumeStepCancelsAfterPayment(status, ref, cancel) ==
    IF status \in Terminal THEN "ack"
    ELSE IF cancel THEN "cancel"
    ELSE IF status = PENDING THEN "markProcessing"
    ELSE IF ref # NoRef THEN "reserveInventory"
    ELSE "validate"

\* The step a run starts from, from the persisted fields of the order.
ResumeStep(status, ref, cancel) ==
    IF status \in Terminal THEN "ack"
    ELSE IF cancel /\ ref = NoRef THEN "cancel"
    ELSE IF status = PENDING THEN "markProcessing"
    ELSE IF ref # NoRef THEN "reserveInventory"
    ELSE "validate"

ReadOrder(w) ==
    /\ wk[w].pc = "read"
    /\ LET row == orders[wk[w].o] IN
       wk' = [wk EXCEPT ![w] =
                [@ EXCEPT !.pc = ResumeStep(row.status, row.paymentReference,
                                            wk[w].o \in cancelReq),
                          !.seen = row.status,
                          !.readRef = row.paymentReference,
                          !.ref = row.paymentReference]]
    /\ UNCHANGED << orders, submissions, rejected, msgs, lastRef, refunds, events, cancelReq, microservices >>

MarkProcessing(w, delivered) ==
    /\ wk[w].pc = "markProcessing"
    /\ WriteStatus(w, ProcessingRow(orders[wk[w].o]), delivered)
    /\ UNCHANGED << submissions, rejected, msgs, lastRef, refunds, cancelReq, microservices >>

\* Validate: item list non-empty, prices non-negative.
ValidateOrder(row) ==
    /\ row.items # << >>
    /\ \A i \in 1..Len(row.items) : row.items[i].price >= 0

Validate(w) ==
    /\ wk[w].pc = "validate"
    /\ wk' = [wk EXCEPT ![w] =
                IF wk[w].o \in cancelReq THEN [@ EXCEPT !.pc = "cancel"]
                ELSE IF ValidateOrder(orders[wk[w].o])
                THEN [@ EXCEPT !.pc = "reservePayment", !.tries = 0]
                ELSE [@ EXCEPT !.pc = "markFailed", !.why = << "validate", "invalid" >>]]
    /\ UNCHANGED << orders, submissions, rejected, msgs, lastRef, refunds, events, cancelReq, microservices >>

RetriesNever(tries) == FALSE

RetriesOnceMore(tries) == tries < MaxAttempts + 1

\* Retry of a task that failed with a transient error: MaxAttempts retries.
Retries(tries) == tries < MaxAttempts

PermanentNever(outcome) == FALSE

\* A decline (payment declined, out of stock) is permanent; a timeout is not.
Permanent(outcome) == outcome = "declined"

\* The transition table of the workflow's capability steps.
SuccessEdge(step) ==
    CASE step = "reservePayment" -> "storeRef"
      [] step = "reserveInventory" -> "complete"
      [] step = "compensate" -> "markFailed"

FailureEdgeNoCompensation(step) == "markFailed"

FailureEdgeAlwaysCompensates(step) ==
    CASE step = "reservePayment" -> "compensate"
      [] step = "reserveInventory" -> "compensate"
      [] step = "compensate" -> "markFailed"

FailureEdgeAbandonsRefund(step) ==
    CASE step = "reservePayment" -> "markFailed"
      [] step = "reserveInventory" -> "compensate"
      [] step = "compensate" -> "ack"

FailureEdge(step) ==
    CASE step = "reservePayment" -> "markFailed"
      [] step = "reserveInventory" -> "compensate"
      [] step = "compensate" -> "markFailed"

\* The next step of a capability task: the success edge, the failure edge on a
\* decline, a retry or (retries exhausted) the failure edge on a transient error.
\* The run remembers its last capability answer (last), the failure that made
\* it leave the happy path (why, the failureReason of MarkFailed) and, after a
\* success, the transient failures that came before it (tries).
TaskNext(run, step, outcome) ==
    LET r == [run EXCEPT !.last = << step, outcome >>] IN
    IF outcome = "success" THEN [r EXCEPT !.pc = SuccessEdge(step)]
    ELSE IF Permanent(outcome) \/ ~ Retries(r.tries)
    THEN [r EXCEPT !.pc = FailureEdge(step), !.tries = 0,
                   !.why = IF @ = NoReason THEN << step, outcome >> ELSE @]
    ELSE [r EXCEPT !.tries = @ + 1]

Outcomes == {"success", "declined", "timeout"}

\* ProcessPayment: process_payment answers a new paymentId or 'Payment declined'.
ReservePayment(w, outcome) ==
    /\ wk[w].pc = "reservePayment"
    /\ outcome = "success" => lastRef[wk[w].o] < MaxRefs
    /\ LET o == wk[w].o
           run == TaskNext(wk[w], "reservePayment", outcome)
       IN /\ wk' = [wk EXCEPT ![w] =
                      IF outcome = "success" THEN [run EXCEPT !.ref = lastRef[o] + 1] ELSE run]
          /\ lastRef' = IF outcome = "success" THEN [lastRef EXCEPT ![o] = @ + 1] ELSE lastRef
    /\ UNCHANGED << orders, submissions, rejected, msgs, refunds, events, cancelReq, microservices >>

\* The paymentReference is stored on the row by a conditional write.
StoreRef(w) ==
    /\ wk[w].pc = "storeRef"
    /\ LET o == wk[w].o IN
       IF CondOk(orders[o], wk[w].seen)
       THEN /\ orders' = [orders EXCEPT ![o] = [@ EXCEPT !.paymentReference = wk[w].ref]]
            /\ wk' = [wk EXCEPT ![w] = [@ EXCEPT !.pc = "reserveInventory", !.tries = 0]]
       ELSE /\ wk' = [wk EXCEPT ![w] = Idle]
            /\ UNCHANGED orders
    /\ UNCHANGED << submissions, rejected, msgs, lastRef, refunds, events, cancelReq, microservices >>

\* UpdateInventory: its failure edge leads to CompensatePayment.
ReserveInventory(w, outcome) ==
    /\ wk[w].pc = "reserveInventory"
    /\ wk' = [wk EXCEPT ![w] = TaskNext(@, "reserveInventory", outcome)]
    /\ UNCHANGED << orders, submissions, rejected, msgs, lastRef, refunds, events, cancelReq, microservices >>

\* The paymentId CompensatePayment passes to refundPayment: the run's own.
RefundRef(run) == run.ref

\* CompensatePayment: every invocation is a recorded refund attempt; both of
\* its edges lead to MarkOrderFailed.
CompensatePayment(w, outcome) ==
    /\ wk[w].pc = "compensate"
    /\ refunds' = refunds \cup { << wk[w].o, RefundRef(wk[w]) >> }
    /\ wk' = [wk EXCEPT ![w] = TaskNext(@, "compensate", outcome)]
    /\ UNCHANGED << orders, submissions, rejected, msgs, lastRef, events, cancelReq, microservices >>

FailedRowNetTotal(row, why) ==
    [row EXCEPT !.status = FAILED, !.failureReason = why,
                !.totalAmount = IF row.paymentReference # NoRef THEN 0 ELSE @]

FailedRow(row, why) == [row EXCEPT !.status = FAILED, !.failureReason = why]

MarkFailed(w, delivered) ==
    /\ wk[w].pc = "markFailed"
    /\ WriteStatus(w, FailedRow(orders[wk[w].o], wk[w].why), delivered)
    /\ UNCHANGED << submissions, rejected, msgs, lastRef, refunds, cancelReq, microservices >>

CompletedRow(row) == [row EXCEPT !.status = COMPLETED]

Complete(w, delivered) ==
    /\ wk[w].pc = "complete"
    /\ WriteStatus(w, CompletedRow(orders[wk[w].o]), delivered)
    /\ UNCHANGED << submissions, rejected, msgs, lastRef, refunds, cancelReq, microservices >>

CancelledRow(row) == [row EXCEPT !.status = CANCELLED]

Cancel(w, delivered) ==
    /\ wk[w].pc = "cancel"
    /\ WriteStatus(w, CancelledRow(orders[wk[w].o]), delivered)
    /\ UNCHANGED << submissions, rejected, msgs, lastRef, refunds, cancelReq, microservices >>

\* A cancellation is requested for an order that is not finished.
RequestCancel(o) ==
    /\ o \notin cancelReq
    /\ orders[o].status \notin Terminal
    /\ cancelReq' = cancelReq \cup {o}
    /\ UNCHANGED << orders, submissions, rejected, msgs, wk, lastRef, refunds, events, microservices >>

\* --------------------------------------------------------- specifications
\* The processing specification follows one order from its creation on (orders
\* share no row, message or run), with every status event delivered.
MainRequests ==
    [hasCustomer : {TRUE}, hasItems : {TRUE}, items : {ScenarioA}, key : {"k1"}]

Deliveries == {TRUE}

Create == orders = << >> /\ \E req \in MainRequests : CreateOrder(req, MaxSubmit)

StepsWith(D) ==
    \/ Create
    \/ \E w \in Workers, o \in OrderIds : Receive(w, o)
    \/ \E o \in OrderIds : Redrive(o)
    \/ \E o \in OrderIds : LeaseExpire(o)
    \/ \E o \in OrderIds : RequestCancel(o)
    \/ \E w \in Workers : Crash(w)
    \/ \E w \in Workers : ReadOrder(w)
    \/ \E w \in Workers, d \in D : MarkProcessing(w, d)
    \/ \E w \in Workers : Validate(w)
    \/ \E w \in Workers, out \in Outcomes : ReservePayment(w, out)
    \/ \E w \in Workers : StoreRef(w)
    \/ \E w \in Workers, out \in Outcomes : ReserveInventory(w, out)
    \/ \E w \in Workers, out \in Outcomes : CompensatePayment(w, out)
    \/ \E w \in Workers, d \in D : MarkFailed(w, d)
    \/ \E w \in Workers, d \in D : Complete(w, d)
    \/ \E w \in Workers, d \in D : Cancel(w, d)
    \/ \E w \in Workers : Ack(w)

Steps == StepsWith(Deliveries)

\* With the operator's replay of quarantined messages.
Next ==
    \/ Steps
    \/ \E o \in OrderIds : Replay(o)

Spec == Init /\ [][Next]_vars

\* A message from its enqueueing to its deletion or quarantine, with leases
\* that run out under a live run: two workers overlap.
NextOverlap ==
    \/ Steps
    \/ \E o \in OrderIds : LeaseExpireEarly(o)

SpecOverlap == Init /\ [][NextOverlap]_vars

\* The same as Spec with status events whose publishing may fail.
NextNotify ==
    \/ StepsWith(BOOLEAN)
    \/ \E o \in OrderIds : Replay(o)

SpecNotify == Init /\ [][NextNotify]_vars

\* The orders whose messages are in the queue at once.
MaxQueued == 2

\* The queue and the order processing function as listed, without the workflow.
NextHandler ==
    \/ \E req \in MainRequests : CreateOrder(req, MaxQueued)
    \/ \E w \in Workers, o \in OrderIds : Receive(w, o)
    \/ \E o \in OrderIds : Redrive(o)
    \/ \E o \in OrderIds : LeaseExpire(o)
    \/ \E w \in Workers : Crash(w)
    \/ \E w \in Workers : HandlerUpdateStatus(w)
    \/ \E w \in Workers : HandlerPublish(w)
    \/ \E w \in Workers : Ack(w)

SpecHandler == Init /\ [][NextHandler]_vars

\* Order creation alone, over every kind of request and with the failure of
\* send_message (the processing specifications follow orders whose message
\* was sent).
AllRequests ==
    [hasCustomer : BOOLEAN, hasItems : {TRUE},
     items : ValidItemLists \cup InvalidItemLists, key : Keys \cup {NoKey}]
    \cup [hasCustomer : BOOLEAN, hasItems : {FALSE}, items : {<< >>}, key : Keys \cup {NoKey}]

NextCreate ==
    \/ \E req \in AllRequests : CreateOrder(req, MaxSubmit)
    \/ \E req \in AllRequests : CreateOrderSendFails(req, MaxSubmit)
    \/ \E req \in AllRequests : RejectOrder(req, MaxSubmit)

SpecCreate == Init /\ [][NextCreate]_vars

\* ------------------------------------------------------- payment service
\* The processing pipeline's variables, which the services do not touch.
pipeline == << orders, submissions, rejected, msgs, wk, lastRef, refunds, events, cancelReq >>

MaxPayments == 3

PaymentIds == 1..Len(payments)

\* The ids a request can name: those of the stored payments and an unknown one.
RequestedPaymentIds == 1..(MaxPayments + 1)

PaymentRequests == [hasFields : BOOLEAN, amount : {-500, 0, 1999}, orderId : {1, 2}]

\* !orderId || !userId || !amount || !currency || !paymentMethod
MissingPaymentFields(req) == ~ req.hasFields \/ req.amount = 0

\* POST /api/payments/process: 400 for a missing field or an amount that is
\* not positive; otherwise the payment is stored as 'completed' (201) or
\* 'failed' (402).
ProcessPayment(req, isSuccess) ==
    /\ IF MissingPaymentFields(req) \/ req.amount <= 0
       THEN /\ reply' = << "process", 0, 400 >>
            /\ UNCHANGED payments
       ELSE /\ Len(payments) < MaxPayments
            /\ payments' = Append(payments,
                               [orderId |-> req.orderId,
                                amount |-> req.amount,
                                status |-> IF isSuccess THEN "completed" ELSE "failed",
                                updatedAt |-> 0,
                                refundId |-> 0])
            /\ reply' = << "process", Len(payments) + 1, IF isSuccess THEN 201 ELSE 402 >>
    /\ UNCHANGED << pipeline, serviceOrders, users, registering >>

RefundRefusedOnlyWhenFailed(status) == status = "failed"

\* payment.status === 'refunded' and payment.status === 'failed' answer 400.
RefundRefused(status) == status \in {"refunded", "failed"}

\* POST /api/payments/:paymentId/refund
RefundPayment(paymentId) ==
    /\ IF paymentId \notin PaymentIds
       THEN /\ reply' = << "refund", paymentId, 404 >>
            /\ UNCHANGED payments
       ELSE IF RefundRefused(payments[paymentId].status)
       THEN /\ reply' = << "refund", paymentId, 400 >>
            /\ UNCHANGED payments
       ELSE /\ payments' = [payments EXCEPT ![paymentId] =
                               [@ EXCEPT !.status = "refunded",
                                         !.updatedAt = @ + 1,
                                         !.refundId = @ + 1]]
            /\ reply' = << "refund", paymentId, 200 >>
    /\ UNCHANGED << pipeline, serviceOrders, users, registering >>

NextPayments ==
    \/ \E req \in PaymentRequests, isSuccess \in BOOLEAN : ProcessPayment(req, isSuccess)
    \/ \E paymentId \in RequestedPaymentIds : RefundPayment(paymentId)

SpecPayments == Init /\ [][NextPayments]_vars

\* --------------------------------------------------------- order service
MaxServiceOrders == 2
MaxUpdates == 2

VALID_STATUSES == {"pending", "confirmed", "processing", "shipped", "delivered", "cancelled"}

ServiceOrderIds == 1..Len(serviceOrders)

RequestedOrderIds == 1..(MaxServiceOrders + 1)

ServiceOrderRequests ==
    [hasUser : BOOLEAN, hasAddress : BOOLEAN,
     items : {OneItem, << >>, << Item(1, -1) >>, << Item(0, 100) >>}]

\* userId, a non-empty items array and shippingAddress are required; each
\* item needs a non-negative price and a quantity of at least 1.
ValidServiceOrder(req) ==
    /\ req.hasUser
    /\ req.items # << >>
    /\ req.hasAddress
    /\ \A i \in 1..Len(req.items) : req.items[i].price >= 0 /\ req.items[i].quantity >= 1

\* items.reduce((sum, item) => sum + item.price * item.quantity, 0), in cents.
RECURSIVE reduceTotal(_)
reduceTotal(items) ==
    IF items = << >> THEN 0
    ELSE reduceTotal(SubSeq(items, 1, Len(items) - 1))
             + items[Len(items)].price * items[Len(items)].quantity

\* POST /api/orders
PostOrder(req) ==
    /\ IF ~ ValidServiceOrder(req)
       THEN /\ reply' = << "create", 0, 400 >>
            /\ UNCHANGED serviceOrders
       ELSE /\ Len(serviceOrders) < MaxServiceOrders
            /\ serviceOrders' = Append(serviceOrders,
                                    [total |-> reduceTotal(req.items),
                                     status |-> "pending",
                                     updatedAt |-> 0])
            /\ reply' = << "create", Len(serviceOrders) + 1, 201 >>
    /\ UNCHANGED << pipeline, payments, users, registering >>

\* PUT /api/orders/:orderId/status: the new status is checked against
\* VALID_STATUSES, the order's current status is not looked at.
PutStatus(orderId, status) ==
    /\ IF status = "" \/ status \notin VALID_STATUSES
       THEN /\ reply' = << "status", orderId, 400 >>
            /\ UNCHANGED serviceOrders
       ELSE IF orderId \notin ServiceOrderIds
       THEN /\ reply' = << "status", orderId, 404 >>
            /\ UNCHANGED serviceOrders
       ELSE /\ serviceOrders[orderId].updatedAt < MaxUpdates
            /\ serviceOrders' = [serviceOrders EXCEPT ![orderId] =
                                    [@ EXCEPT !.status = status, !.updatedAt = @ + 1]]
            /\ reply' = << "status", orderId, 200 >>
    /\ UNCHANGED << pipeline, payments, users, registering >>

CancellableUnlessFinal(status) == status \notin {"delivered", "cancelled"}

\* order.status !== 'pending' && order.status !== 'confirmed' answers 400.
Cancellable(status) == status \in {"pending", "confirmed"}

\* POST /api/orders/:orderId/cancel
CancelOrder(orderId) ==
    /\ IF orderId \notin ServiceOrderIds
       THEN /\ reply' = << "cancel", orderId, 404 >>
            /\ UNCHANGED serviceOrders
       ELSE IF ~ Cancellable(serviceOrders[orderId].status)
       THEN /\ reply' = << "cancel", orderId, 400 >>
            /\ UNCHANGED serviceOrders
       ELSE /\ serviceOrders[orderId].updatedAt < MaxUpdates
            /\ serviceOrders' = [serviceOrders EXCEPT ![orderId] =
                                    [@ EXCEPT !.status = "cancelled", !.updatedAt = @ + 1]]
            /\ reply' = << "cancel", orderId, 200 >>
    /\ UNCHANGED << pipeline, payments, users, registering >>

NextOrders ==
    \/ \E req \in ServiceOrderRequests : PostOrder(req)
    \/ \E orderId \in RequestedOrderIds, status \in VALID_STATUSES \cup {"", "returned"} :
          PutStatus(orderId, status)
    \/ \E orderId \in RequestedOrderIds : CancelOrder(orderId)

SpecOrders == Init /\ [][NextOrders]_vars

\* ---------------------------------------------------------- user service
MaxUsers == 3
MaxInFlight == 2

Emails == {"a@example.com", "b@example.com"}

RegisterRequests == [hasFields : BOOLEAN, email : Emails]

\* The register requests that can be waiting for their password hash at once.
Slots == 1..MaxInFlight

\* users.find((u) => u.email === email)
exists(email) == \E i \in 1..Len(users) : users[i].email = email

\* POST /api/users/register up to the await: 400 for a missing field, 409 for
\* an email that is stored already, otherwise the handler waits for
\* bcrypt.hash and other requests are served meanwhile.
RegisterCheck(slot, req) ==
    /\ \A r \in registering : r[1] # slot
    /\ IF ~ req.hasFields
       THEN /\ reply' = << "register", 0, 400 >>
            /\ UNCHANGED registering
       ELSE IF exists(req.email)
       THEN /\ reply' = << "register", 0, 409 >>
            /\ UNCHANGED registering
       ELSE /\ registering' = registering \cup { << slot, req.email >> }
            /\ UNCHANGED reply
    /\ UNCHANGED << pipeline, payments, serviceOrders, users >>

\* The hash is there: the handler goes on with id: nextId++, users.push(user)
\* and answers 201.
RegisterInsert(r) ==
    /\ r \in registering
    /\ Len(users) < MaxUsers
    /\ users' = Append(users, [id |-> Len(users) + 1, email |-> r[2]])
    /\ registering' = registering \ {r}
    /\ reply' = << "register", Len(users) + 1, 201 >>
    /\ UNCHANGED << pipeline, payments, serviceOrders >>

\* bcrypt.hash rejects: catch (err) { next(err) } answers 500.
RegisterHashFails(r) ==
    /\ r \in registering
    /\ registering' = registering \ {r}
    /\ reply' = << "register", 0, 500 >>
    /\ UNCHANGED << pipeline, payments, serviceOrders, users >>

NextUsers ==
    \/ \E slot \in Slots, req \in RegisterRequests : RegisterCheck(slot, req)
    \/ \E r \in registering : RegisterInsert(r)
    \/ \E r \in registering : RegisterHashFails(r)

SpecUsers == Init /\ [][NextUsers]_vars

\* ------------------------------------------------------------------ claims
RefundsOf(o) == { r \in refunds : r[1] = o }

\* The capability steps of the workflow.
CapabilitySteps == {"reservePayment", "reserveInventory", "compensate"}

\* A worker's run made a step of its own (not the end of its invocation).
RunStep(w) == wk'[w] # wk[w] /\ wk'[w].pc # "idle"

C5_AckAfterTerminal ==
    \A o \in OrderIds : msgs[o].state = "deleted" => orders[o].status \in Terminal

\* C6: the creation requests that carry the same idempotencyKey were all
\* answered with the same orderId (one row per key).
C6_IdempotentCreation ==
    \A s \in submissions, t \in submissions :
        s[1] # NoKey /\ s[1] = t[1] => s[2] = t[2]

C8_TotalUnchanged ==
    [][\A o \in 1..Len(orders) : orders'[o].totalAmount = orders[o].totalAmount]_vars

\* A compensated, failed order that still shows the total of its creation.
C8_Witness ==
    \E o \in OrderIds :
        /\ orders[o].status = FAILED
        /\ RefundsOf(o) # {}
        /\ orders[o].totalAmount = calculate_total(orders[o].items)
        /\ orders[o].totalAmount = 10997

C11_RetryThenSuccess ==
    /\ [](\A w \in Workers :
            /\ wk[w].pc \in CapabilitySteps /\ wk[w].tries > 0
                  => wk[w].last = << wk[w].pc, "timeout" >>
            /\ wk[w].last = << "reserveInventory", "success" >> /\ wk[w].why = NoReason
                  => /\ wk[w].pc \in {"complete", "ack"}
                     /\ wk[w].tries \in 0..MaxAttempts
                     /\ wk[w].pc = "ack" => orders[wk[w].o].status = COMPLETED)
    /\ [][\A w \in Workers :
            wk[w].pc \in CapabilitySteps /\ RunStep(w) =>
                \/ /\ wk'[w].last = << wk[w].pc, "timeout" >>
                   /\ wk[w].tries < MaxAttempts
                   /\ wk'[w].pc = wk[w].pc
                   /\ wk'[w].tries = wk[w].tries + 1
                \/ /\ wk'[w].last = << wk[w].pc, "timeout" >>
                   /\ wk[w].tries = MaxAttempts
                   /\ wk'[w].pc # wk[w].pc
                \/ /\ wk'[w].last = << wk[w].pc, "success" >>
                   /\ wk'[w].tries = wk[w].tries
                   /\ wk'[w].pc \in {"storeRef", "complete", "markFailed"}
                \/ wk'[w].last = << wk[w].pc, "declined" >>]_vars

\* The inventory capability timed out twice and succeeded on the third
\* invocation; the order is COMPLETED and nothing was refunded.
C11_Witness ==
    \E w \in Workers :
        /\ wk[w].pc = "ack"
        /\ wk[w].last = << "reserveInventory", "success" >>
        /\ wk[w].tries = 2
        /\ orders[wk[w].o].status = COMPLETED
        /\ RefundsOf(wk[w].o) = {}

\* C12: a step is retried at most MaxAttempts times; the transient failure
\* after the last retry leaves the step by the edge a decline takes:
\* ReservePayment to MarkFailed, ReserveInventory to CompensatePayment,
\* CompensatePayment to MarkFailed.
C12_RetryExhaustion ==
    /\ [](\A w \in Workers : wk[w].pc \in CapabilitySteps => wk[w].tries \in 0..MaxAttempts)
    /\ [][\A w \in Workers :
            /\ wk[w].pc \in CapabilitySteps
            /\ RunStep(w)
            /\ \/ wk'[w].last = << wk[w].pc, "declined" >>
               \/ wk'[w].last = << wk[w].pc, "timeout" >> /\ wk[w].tries = MaxAttempts
            => /\ wk[w].pc = "reservePayment" => wk'[w].pc = "markFailed"
               /\ wk[w].pc = "reserveInventory" => wk'[w].pc = "compensate"
               /\ wk[w].pc = "compensate" => wk'[w].pc = "markFailed"
               /\ wk'[w].tries = 0]_vars

\* The inventory step timed out on every attempt and the run went on to
\* CompensatePayment.
C12_Witness ==
    \E w \in Workers :
        /\ wk[w].pc = "compensate"
        /\ wk[w].last = << "reserveInventory", "timeout" >>
        /\ wk[w].why = << "reserveInventory", "timeout" >>

\* C13: the step that moves a message to the dead letter queue changes no
\* order row (in particular it marks no order FAILED).
C13_QuarantineFrame ==
    [][(\E o \in 1..Len(msgs) : msgs[o].state # "dlq" /\ msgs'[o].state = "dlq")
          => orders' = orders]_vars

\* The message was quarantined on its fourth delivery and its order is
\* still PENDING, untouched since its creation.
C13_Witness ==
    \E o \in OrderIds :
        /\ msgs[o].state = "dlq"
        /\ msgs[o].rc = maxReceiveCount + 1
        /\ orders[o].status = PENDING
        /\ orders[o].paymentReference = NoRef
        /\ orders[o].failureReason = NoReason

StatusWriteSteps == {"markProcessing", "markFailed", "complete", "cancel"}

StatusWritten(step) ==
    CASE step = "markProcessing" -> PROCESSING
      [] step = "markFailed" -> FAILED
      [] step = "complete" -> COMPLETED
      [] step = "cancel" -> CANCELLED

ValidRow(row) ==
    /\ row.hasCustomer
    /\ row.items # << >>
    /\ \A i \in 1..Len(row.items) : row.items[i].price >= 0 /\ row.items[i].quantity >= 1

C19_CreationEnqueues ==
    /\ \A s \in submissions : s[2] \in OrderIds
    /\ Len(msgs) = Len(orders)
    /\ \A o \in OrderIds : msgs[o].state # "unsent"

C21_NoAutoReplay ==
    /\ [](\A o \in OrderIds :
            msgs[o].state = "dlq"
                => /\ msgs[o].holder = "none"
                   /\ \A w \in Workers : wk[w].pc = "read" => wk[w].o # o)
    /\ [][\A o \in 1..Len(msgs) :
            msgs[o].state = "dlq" /\ msgs'[o].state # "dlq"
                => /\ msgs' = [msgs EXCEPT ![o] = NewMessage]
                   /\ UNCHANGED << orders, submissions, rejected, wk, lastRef,
                                   refunds, events, cancelReq >>]_vars

\* A message back on the queue as new while its order was already taken up:
\* it was quarantined and replayed.
C21_Witness ==
    \E o \in OrderIds :
        /\ msgs[o] = NewMessage
        /\ orders[o].status = PROCESSING

\* The amount of the i-th line of an item list, 0 past its end.
LineAmount(items, i) ==
    IF i <= Len(items) THEN items[i].quantity * items[i].price ELSE 0

\* C22: the totalAmount of every row created (item lists of up to three
\* lines, amounts in cents) is the sum of quantity times price over its
\* lines, 10997 for 2 x 2999 and 1 x 4999, and the row is PENDING.
C22_TotalIsSumOfLines ==
    \A o \in OrderIds :
        /\ Len(orders[o].items) <= 3
        /\ orders[o].totalAmount = LineAmount(orders[o].items, 1)
                                   + LineAmount(orders[o].items, 2)
                                   + LineAmount(orders[o].items, 3)
        /\ orders[o].items = ScenarioA => orders[o].totalAmount = 10997
        /\ orders[o].status = PENDING

\* The order of scenario A next to an order of three lines.
C22_Witness ==
    \E o \in OrderIds, n \in OrderIds :
        /\ orders[o].items = << Item(2, 2999), Item(1, 4999) >>
        /\ orders[o].totalAmount = 10997
        /\ orders[o].status = PENDING
        /\ orders[n].items = ThreeItems
        /\ orders[n].totalAmount = 850

C24_LeaseExclusivity ==
    /\ [](\A o \in OrderIds :
            /\ \A w1, w2 \in Workers :
                   (wk[w1].pc # "idle" /\ wk[w1].o = o /\ wk[w2].pc # "idle" /\ wk[w2].o = o)
                       => w1 = w2
            /\ \A w \in Workers :
                   (wk[w].pc # "idle" /\ wk[w].o = o)
                       => msgs[o].state = "inflight" /\ msgs[o].holder = w)
    /\ [][\A o \in 1..Len(orders) :
             msgs[o].state = "inflight"
                 => /\ msgs'[o].state = "inflight" => msgs'[o].holder = msgs[o].holder
                    /\ \A w \in Workers :
                           (wk'[w].pc # "idle" /\ wk'[w].o = o)
                               => wk[w].pc # "idle" /\ wk[w].o = o]_vars

\* Two workers are busy at the same time, each holding the message of a
\* different order.
C24_Witness ==
    /\ Len(orders) >= 2
    /\ wk["w1"].pc = "publish" /\ wk["w2"].pc = "publish"
    /\ wk["w1"].o # wk["w2"].o
    /\ msgs[wk["w1"].o].holder = "w1" /\ msgs[wk["w2"].o].holder = "w2"

\* C25: the payment capability's reserve succeeds at most once for an order,
\* also when a lease expires under a run and two workers overlap on the order.
C25_ReserveAtMostOnce ==
    [][\A o \in 1..Len(orders) :
          (/\ lastRef'[o] > lastRef[o]
           /\ \E w1, w2 \in Workers :
                  w1 # w2 /\ wk[w1].o = o /\ wk[w2].o = o
                          /\ wk[w1].pc # "idle" /\ wk[w2].pc # "idle")
              => lastRef[o] = 0]_vars

\* C26: an order whose status is COMPLETED has no refund attempt recorded
\* against it.
C26_NoRefundForCompleted ==
    \A o \in OrderIds : orders[o].status = COMPLETED => RefundsOf(o) = {}

\* C27: a refund goes through only for a 'completed' payment, which becomes
\* 'refunded'; a 'refunded' or 'failed' payment is never changed again; a
\* refund answered 400 or 404 leaves the payments as they were, 400 being
\* the answer for a refunded or failed payment and 404 for an unknown id.
C27_RefundAtMostOnce ==
    /\ [](/\ \A p \in PaymentIds :
                /\ payments[p].status \in {"completed", "failed", "refunded"}
                /\ payments[p].refundId <= 1
                /\ (payments[p].status = "refunded") <=> (payments[p].refundId = 1)
          /\ (reply[1] = "refund")
                => /\ (reply[3] = 404) <=> (reply[2] \notin PaymentIds)
                   /\ (reply[3] = 400) => (payments[reply[2]].status \in {"refunded", "failed"})
                   /\ (reply[3] = 200) => (payments[reply[2]].status = "refunded"))
    /\ [][/\ \A p \in PaymentIds :
                /\ (payments[p].status \in {"refunded", "failed"}) => (payments'[p] = payments[p])
                /\ (payments'[p] # payments[p])
                      => /\ payments[p].status = "completed"
                         /\ payments'[p] = [payments[p] EXCEPT !.status = "refunded",
                                                               !.updatedAt = @ + 1,
                                                               !.refundId = 1]
                         /\ reply' = << "refund", p, 200 >>
          /\ (reply' # reply /\ reply'[1] = "refund" /\ reply'[3] # 200)
                => (payments' = payments)]_vars

\* A payment was refunded, a second refund of it was answered 400, and a
\* failed payment is stored next to it.
C27_Witness ==
    /\ \E p \in PaymentIds : payments[p].status = "refunded" /\ reply = << "refund", p, 400 >>
    /\ \E p \in PaymentIds : payments[p].status = "failed"

\* C28: a cancel request sets the status to 'cancelled' exactly when the
\* order is 'pending' or 'confirmed'; for another status it answers 400 and
\* for an unknown order 404, and then the stored orders are as before.
C28_CancelOnlyPendingOrConfirmed ==
    /\ [](reply[1] = "cancel"
             => /\ (reply[3] = 404) <=> (reply[2] \notin ServiceOrderIds)
                /\ (reply[3] = 400)
                      => (serviceOrders[reply[2]].status \notin {"pending", "confirmed"})
                /\ (reply[3] = 200) => (serviceOrders[reply[2]].status = "cancelled"))
    /\ [][(reply' # reply /\ reply'[1] = "cancel")
             => LET o == reply'[2] IN
                IF o \notin ServiceOrderIds
                THEN reply'[3] = 404 /\ serviceOrders' = serviceOrders
                ELSE IF serviceOrders[o].status \in {"pending", "confirmed"}
                THEN /\ reply'[3] = 200
                     /\ serviceOrders' = [serviceOrders EXCEPT ![o] =
                                             [@ EXCEPT !.status = "cancelled",
                                                       !.updatedAt = @ + 1]]
                ELSE reply'[3] = 400 /\ serviceOrders' = serviceOrders]_vars

\* One order was cancelled from 'confirmed', and the cancel of another order,
\* which is 'shipped', has just been answered 400.
C28_Witness ==
    \E o1, o2 \in ServiceOrderIds :
        /\ serviceOrders[o1] = [total |-> 100, status |-> "cancelled", updatedAt |-> 2]
        /\ serviceOrders[o2].status = "shipped"
        /\ reply = << "cancel", o2, 400 >>

\* C29: an order of the order service whose status is 'cancelled' or
\* 'delivered' keeps that status.
C29_FinalStatusKept ==
    [][\A o \in 1..Len(serviceOrders) :
          (serviceOrders[o].status \in {"cancelled", "delivered"})
              => (serviceOrders'[o].status = serviceOrders[o].status)]_vars

\* C30: no two stored users of the user service have the same email.
C30_EmailsUnique ==
    \A i, j \in 1..Len(users) : users[i].email = users[j].email => i = j

====
